---- MODULE Spec2Model ----
(***************************************************************************)
(* A model of imdb_renamer: the string sanitizer, the dirname parser, the  *)
(* Movie record, the country catalog and the per-folder reconciler.        *)
(*                                                                         *)
(* A Python str is a sequence of one-character strings.  An Optional value *)
(* is None (the empty tuple) or Some(v) (the one-element tuple holding v), *)
(* so that None and the empty string '' stay different values.             *)
(***************************************************************************)
EXTENDS Integers, Sequences, FiniteSets, TLC

VARIABLES
    \* -- text pipeline (cleanse_string, extract_info_from_dirname, set_title)
    t_pc,        \* position of the text pipeline
    t_in,        \* the raw input string
    t_replace,   \* replace_to_wildcard argument of cleanse_string
    t_wildcard,  \* wildcard argument of cleanse_string
    t_clean,     \* result of cleanse_string
    t_parsed,    \* result of extract_info_from_dirname: [title, year]
    t_title,     \* Movie.title as left by Movie.set_title
    \* -- country catalog (CountryEntry, CountryDb, Movie._shorten_countries)
    c_pc,        \* "loading", "built" (constructor returned), "failed" (it raised),
                 \* "answered" (a lookup was made on the built catalog)
    c_records,   \* the serialized records the catalog is loaded from
    c_next,      \* index of the next entry the constructor inserts
    c_long,      \* CountryDb._long_name_mapping
    c_s2,        \* CountryDb._short_2letters_mapping
    c_s3,        \* CountryDb._short_3letters_mapping
    c_error,     \* the ValueError raised by the constructor, if any
    c_query,     \* the last lookup made: [kind, arg]
    c_found,     \* what that lookup returned
    c_shortened, \* what Movie._shorten_countries returned
    \* -- CountryDb singleton
    s_source,    \* content of country_db.json: None (missing) or Some(records)
    s_instance,  \* CountryDb._SINGLETON_INSTANCE: None or Some(catalog)
    \* -- one Movie (from_json, expand_details_from_json, to_formatted_filename)
    m_pc,        \* "start", "built", "expanded", "formatted" or "failed"
    m_json,      \* the record given to Movie.from_json
    m_details,   \* the record given to Movie.expand_details_from_json
    m_movie,     \* None or Some(the Movie's __dict__)
    m_label,     \* result of to_formatted_filename
    \* -- the folder reconciler (rename_movie_folders, get_movie_for_dir)
    f_pc,        \* "idle" (no process running), "looping" (inside the for loop)
    f_run,       \* number of runs of the program started so far
    f_dry,       \* dry_run of the current run
    f_fs,        \* the subfolders of the base path: [name, media, config]
    f_list,      \* folder_and_filename_list: what walk_folder returned
    f_i,         \* index in f_list of the next folder of the loop
    f_visit,     \* what the last iteration of the loop did
    f_written,   \* per folder: the run that wrote its override file, if any
    \* -- the calls of CountryDb.get_singleton made by one process
    g_calls,     \* number of calls made
    g_reads,     \* number of times country_db.json was opened
    g_returned,  \* what the last call did: [raised, db]
    g_first      \* the catalog the first successful call returned, if any

t_vars == <<t_pc, t_in, t_replace, t_wildcard, t_clean, t_parsed, t_title>>

c_vars == <<c_pc, c_records, c_next, c_long, c_s2, c_s3, c_error, c_query,
            c_found, c_shortened>>

s_vars == <<s_source, s_instance>>

m_vars == <<m_pc, m_json, m_details, m_movie, m_label>>

f_vars == <<f_pc, f_run, f_dry, f_fs, f_list, f_i, f_visit, f_written>>

g_vars == <<g_calls, g_reads, g_returned, g_first>>

vars == <<t_vars, c_vars, s_vars, m_vars, f_vars, g_vars>>

\* what the actions of each part leave alone
not_text == <<c_vars, s_vars, m_vars, f_vars, g_vars>>
not_catalog == <<t_vars, s_vars, m_vars, f_vars, g_vars>>
not_movie == <<t_vars, c_vars, f_vars, g_vars>>
not_folders == <<t_vars, c_vars, m_vars, g_vars>>
not_singleton == <<t_vars, c_vars, m_vars, f_vars>>

(***************************************************************************)
(* Bounds of the model.                                                    *)
(***************************************************************************)
MaxPieces == 3
MaxEntries == 2
MaxCountries == 2
MaxFolders == 1
MaxRuns == 2
MaxCalls == 3

(***************************************************************************)
(* Optional values.                                                        *)
(***************************************************************************)
None == <<>>
Some(v) == <<v>>
Val(o) == o[1]

(***************************************************************************)
(* Python str primitives.                                                  *)
(***************************************************************************)
UpperLetters == <<"A","B","C","D","E","F","G","H","I","J","K","L","M",
                  "N","O","P","Q","R","S","T","U","V","W","X","Y","Z">>
LowerLetters == <<"a","b","c","d","e","f","g","h","i","j","k","l","m",
                  "n","o","p","q","r","s","t","u","v","w","x","y","z">>
Digits == <<"0","1","2","3","4","5","6","7","8","9">>

Range(f) == {f[i] : i \in DOMAIN f}

isdigit(c) == c \in Range(Digits)
isalnum(c) == c \in Range(UpperLetters) \cup Range(LowerLetters) \cup Range(Digits)
isspace(c) == c \in {" ", "\t", "\n"}

\* str.lower() on one character
lower_char(c) ==
    IF c \in Range(UpperLetters)
    THEN LowerLetters[CHOOSE i \in DOMAIN UpperLetters : UpperLetters[i] = c]
    ELSE c

\* str.lower()
lower(s) == [i \in DOMAIN s |-> lower_char(s[i])]

RECURSIVE lstrip(_)
lstrip(s) == IF s # <<>> /\ isspace(Head(s)) THEN lstrip(Tail(s)) ELSE s

RECURSIVE rstrip(_)
rstrip(s) ==
    IF s # <<>> /\ isspace(s[Len(s)]) THEN rstrip(SubSeq(s, 1, Len(s) - 1)) ELSE s

\* str.strip()
strip(s) == rstrip(lstrip(s))

RECURSIVE split_acc(_, _, _, _)
split_acc(s, i, cur, acc) ==
    IF i > Len(s)
    THEN IF cur = <<>> THEN acc ELSE Append(acc, cur)
    ELSE IF isspace(s[i])
         THEN split_acc(s, i + 1, <<>>, IF cur = <<>> THEN acc ELSE Append(acc, cur))
         ELSE split_acc(s, i + 1, Append(cur, s[i]), acc)

\* str.split() without argument: the whitespace-separated tokens
split(s) == split_acc(s, 1, <<>>, <<>>)

RECURSIVE split_on_acc(_, _, _, _, _)
split_on_acc(s, sep, i, cur, acc) ==
    IF i > Len(s)
    THEN Append(acc, cur)
    ELSE IF s[i] = sep
         THEN split_on_acc(s, sep, i + 1, <<>>, Append(acc, cur))
         ELSE split_on_acc(s, sep, i + 1, Append(cur, s[i]), acc)

\* str.split(sep) for a one-character separator: empty pieces are kept
split_on(s, sep) == split_on_acc(s, sep, 1, <<>>, <<>>)

RECURSIVE join(_, _)
\* sep.join(parts)
join(sep, parts) ==
    IF parts = <<>> THEN <<>>
    ELSE IF Len(parts) = 1 THEN parts[1]
    ELSE parts[1] \o sep \o join(sep, Tail(parts))

\* int() of a string of ASCII digits
RECURSIVE int_of_digits(_)
int_of_digits(s) ==
    IF s = <<>> THEN 0
    ELSE 10 * int_of_digits(SubSeq(s, 1, Len(s) - 1))
         + ((CHOOSE i \in DOMAIN Digits : Digits[i] = s[Len(s)]) - 1)

\* str() of a natural number
RECURSIVE str_of_nat(_)
str_of_nat(n) ==
    IF n < 10 THEN <<Digits[n + 1]>>
    ELSE str_of_nat(n \div 10) \o <<Digits[(n % 10) + 1]>>

\* int(raw): Some(n) when raw, stripped of whitespace, is a non-empty string of
\* digits, and None (the parser raised) otherwise
parse_int(raw) ==
    LET s == strip(raw) IN
    IF s # <<>> /\ \A i \in DOMAIN s : isdigit(s[i])
    THEN Some(int_of_digits(s))
    ELSE None

\* apply_safe_parse(int, raw_value): None for None and for a failing parse
safe_parse_int(raw_value) ==
    IF raw_value = None THEN None ELSE parse_int(Val(raw_value))

(***************************************************************************)
(* Module constants of main.py.                                            *)
(***************************************************************************)
\* The first two literals are adjacent in the source, so Python concatenates
\* them into one two-character member.
allowed_punctuation ==
    { <<"¿", "?">>, <<"¡">>, <<"!">>, <<".">>, <<",">>, <<"'">> }

DefaultWildcard == <<"-">>
DirectorWildcard == <<" ", "-", " ">>

(***************************************************************************)
(* cleanse_string                                                          *)
(***************************************************************************)
cleanse_char(c, replace_to_wildcard, wildcard) ==
    IF isalnum(c) \/ isspace(c) \/ <<c>> \in allowed_punctuation
    THEN <<c>>
    ELSE IF replace_to_wildcard THEN wildcard ELSE <<>>

RECURSIVE cleanse_chars(_, _, _)
cleanse_chars(s, replace_to_wildcard, wildcard) ==
    IF s = <<>> THEN <<>>
    ELSE cleanse_char(Head(s), replace_to_wildcard, wildcard)
         \o cleanse_chars(Tail(s), replace_to_wildcard, wildcard)

\* title is Optional[str]
cleanse_string(title, replace_to_wildcard, wildcard) ==
    IF title = None THEN <<>>
    ELSE LET stripped == strip(Val(title))
             clean_title == cleanse_chars(stripped, replace_to_wildcard, wildcard)
         IN  join(<<" ">>, split(clean_title))

(***************************************************************************)
(* The three regular expressions, matched with re.match (anchored at the   *)
(* start of the string, not at its end).  '.' matches anything but '\n'.   *)
(***************************************************************************)
NoNewline(s, a, b) == \A i \in a..b : s[i] # "\n"
AllSpace(s, a, b) == \A i \in a..b : isspace(s[i])
IsThe(s, a) == a + 2 <= Len(s) /\ lower(SubSeq(s, a, a + 2)) = <<"t", "h", "e">>
Max(S) == CHOOSE x \in S : \A y \in S : y <= x
Min(S) == CHOOSE x \in S : \A y \in S : x <= y

\* title_writing_regex = '(the)\s+(.*)', IGNORECASE: None or the two groups
title_writing_match(s) ==
    IF IsThe(s, 1) /\ Len(s) >= 4 /\ isspace(s[4])
    THEN LET j == Min({i \in 5..(Len(s) + 1) : i = Len(s) + 1 \/ ~isspace(s[i])})
             e == Min({i \in j..(Len(s) + 1) : i = Len(s) + 1 \/ s[i] = "\n"})
         IN  Some([g1 |-> SubSeq(s, 1, 3), g2 |-> SubSeq(s, j, e - 1)])
    ELSE None

\* optional_title_parsing_regex = '(.*),\s+(the)', IGNORECASE: the greedy first
\* group ends at the last comma that is followed by whitespace and 'the'
optional_title_match(s) ==
    LET Ks == {k \in 0..Len(s) :
                 /\ NoNewline(s, 1, k)
                 /\ k + 1 <= Len(s) /\ s[k + 1] = ","
                 /\ \E m \in 1..Len(s) :
                       /\ k + 1 + m <= Len(s)
                       /\ AllSpace(s, k + 2, k + 1 + m)
                       /\ IsThe(s, k + 2 + m)}
    IN  IF Ks = {} THEN None
        ELSE LET k == Max(Ks)
                 m == Min({n \in 1..Len(s) :
                             /\ k + 1 + n <= Len(s)
                             /\ AllSpace(s, k + 2, k + 1 + n)
                             /\ IsThe(s, k + 2 + n)})
             IN  Some([g1 |-> SubSeq(s, 1, k),
                       g2 |-> SubSeq(s, k + 2 + m, k + 4 + m)])

\* dirname_parsing_regex = '(.*)\(.*(\d{4}).*\)': both leading '.*' are greedy
DigitsAt(s, d) == d + 3 <= Len(s) /\ \A i \in d..(d + 3) : isdigit(s[i])
YearStarts(s, k) ==
    {d \in (k + 2)..Len(s) :
        /\ DigitsAt(s, d)
        /\ NoNewline(s, k + 2, d - 1)
        /\ \E e \in (d + 4)..Len(s) : s[e] = ")" /\ NoNewline(s, d + 4, e - 1)}
dirname_match(s) ==
    LET Ks == {k \in 0..Len(s) :
                 /\ NoNewline(s, 1, k)
                 /\ k + 1 <= Len(s) /\ s[k + 1] = "("
                 /\ YearStarts(s, k) # {}}
    IN  IF Ks = {} THEN None
        ELSE LET k == Max(Ks)
                 d == Max(YearStarts(s, k))
             IN  Some([g1 |-> SubSeq(s, 1, k), g2 |-> SubSeq(s, d, d + 3)])

(***************************************************************************)
(* extract_info_from_dirname and Movie.set_title                           *)
(***************************************************************************)
reorder_article(title) ==
    LET optional_match == optional_title_match(title) IN
    IF optional_match # None
    THEN Val(optional_match).g2 \o <<" ">> \o Val(optional_match).g1
    ELSE title

\* the title before the article reorder when the pattern is never applied
dirname_title_whole(dirname) == dirname

\* the title before the article reorder: the whole dirname, or the trimmed
\* text before the parenthesized year
dirname_title(dirname) ==
    LET dirname_match_ == dirname_match(dirname) IN
    IF dirname_match_ = None THEN dirname ELSE strip(Val(dirname_match_).g1)

dirname_year(dirname) ==
    LET dirname_match_ == dirname_match(dirname) IN
    IF dirname_match_ = None THEN None
    ELSE safe_parse_int(Some(Val(dirname_match_).g2))

extract_info_from_dirname(dirname) ==
    [title |-> cleanse_string(Some(reorder_article(dirname_title(dirname))),
                              FALSE, DefaultWildcard),
     year |-> dirname_year(dirname)]

\* the value Movie.set_title stores in self.title
set_title(title) ==
    LET title_match == title_writing_match(title)
        rewritten == IF title_match # None
                     THEN Val(title_match).g2 \o <<",", " ">> \o Val(title_match).g1
                     ELSE title
    IN  cleanse_string(Some(rewritten), TRUE, DefaultWildcard)

(***************************************************************************)
(* CountryEntry                                                            *)
(***************************************************************************)
_FILTERED_LONG_NAME_WORDS ==
    { <<"a", "n", "d">>, <<"o", "f">>, <<"t", "h", "e">> }

_normalize_string(raw) == lower(strip(raw))

\* a filter that keeps every word
_filter_long_name_words_none(long_name_words) == long_name_words

_filter_long_name_words(long_name_words) ==
    SelectSeq(long_name_words, LAMBDA x : x \notin _FILTERED_LONG_NAME_WORDS)

normalize_country(raw) ==
    LET tokens == split(raw)
        country_parts == [i \in DOMAIN tokens |-> _normalize_string(tokens[i])]
    IN  join(<<>>, IF Len(country_parts) > 1
                   THEN _filter_long_name_words(country_parts)
                   ELSE country_parts)

\* Python truthiness of an Optional[str]: None and '' are falsy
Truthy(o) == o # None /\ Val(o) # <<>>

\* CountryEntry.__init__; idx stands for the identity of the object
CountryEntry(idx, long_name, short_2letters, short_3letters) ==
    [idx |-> idx,
     long_name |-> long_name,
     _normalized_long_name |->
        IF Truthy(long_name) THEN Some(normalize_country(Val(long_name))) ELSE None,
     short_2letters |-> short_2letters,
     _normalized_short_2letters |->
        IF Truthy(short_2letters) THEN Some(normalize_country(Val(short_2letters)))
        ELSE None,
     short_3letters |-> short_3letters,
     _normalized_short_3letters |->
        IF Truthy(short_3letters) THEN Some(_normalize_string(Val(short_3letters)))
        ELSE None]

\* dict.get(field) on a serialized record
dict_get(d, field) == IF field \in DOMAIN d THEN d[field] ELSE None

from_dict(idx, d) ==
    CountryEntry(idx, dict_get(d, "long_name"), dict_get(d, "short_2letters"),
                 dict_get(d, "short_3letters"))

_get_preference(first_choice, second_choice) ==
    IF first_choice # None THEN first_choice ELSE second_choice

\* mutant: the preference of get_longer_abbrev
get_shorter_abbrev_swapped(entry) ==
    _get_preference(entry.short_3letters, entry.short_2letters)

get_shorter_abbrev(entry) ==
    _get_preference(entry.short_2letters, entry.short_3letters)

get_longer_abbrev(entry) ==
    _get_preference(entry.short_3letters, entry.short_2letters)

(***************************************************************************)
(* CountryDb.  A mapping is a set of [key, entry] pairs with unique keys.  *)
(***************************************************************************)
mapping_get(mapping, key) ==
    IF \E p \in mapping : p.key = key
    THEN Some((CHOOSE p \in mapping : p.key = key).entry)
    ELSE None

\* new_entry_key is key(new_entry); the result says whether ValueError was raised
_add_entry_to_mapping(new_entry, mapping, new_entry_key, field_name) ==
    IF new_entry_key = None
    THEN [raised |-> FALSE, mapping |-> mapping, error |-> None]
    ELSE LET existing_entry == mapping_get(mapping, Val(new_entry_key)) IN
         IF existing_entry # None
         THEN [raised |-> TRUE, mapping |-> mapping,
               error |-> Some([new |-> new_entry.idx,
                               existing |-> Val(existing_entry).idx,
                               field |-> field_name])]
         ELSE [raised |-> FALSE,
               mapping |-> mapping \cup {[key |-> Val(new_entry_key), entry |-> new_entry]},
               error |-> None]

\* the key insert_entry passes for the 2-letter mapping
short_2letters_mapping_key(entry) == entry._normalized_short_3letters

\* CountryDb.insert_entry on the mappings <<long, s2, s3>>: the three
\* _add_entry_to_mapping calls in order, stopping at the first that raises
insert_entry(long, s2, s3, entry) ==
    LET r1 == _add_entry_to_mapping(entry, long, entry._normalized_long_name,
                                    "long name")
        r2 == _add_entry_to_mapping(entry, s2, short_2letters_mapping_key(entry),
                                    "short 2 letters name")
        r3 == _add_entry_to_mapping(entry, s3, entry._normalized_short_3letters,
                                    "short 3 letters name")
    IN  IF r1.raised
        THEN [raised |-> TRUE, long |-> long, s2 |-> s2, s3 |-> s3, error |-> r1.error]
        ELSE IF r2.raised
        THEN [raised |-> TRUE, long |-> r1.mapping, s2 |-> s2, s3 |-> s3,
              error |-> r2.error]
        ELSE IF r3.raised
        THEN [raised |-> TRUE, long |-> r1.mapping, s2 |-> r2.mapping, s3 |-> s3,
              error |-> r3.error]
        ELSE [raised |-> FALSE, long |-> r1.mapping, s2 |-> r2.mapping,
              s3 |-> r3.mapping, error |-> None]

_maybe_normalize(raw, normalize) == IF normalize THEN normalize_country(raw) ELSE raw

find_by_long_name(long, long_name, normalize) ==
    mapping_get(long, _maybe_normalize(long_name, normalize))

find_by_short_2letters(s2, short_2letters, normalize) ==
    mapping_get(s2, _maybe_normalize(short_2letters, normalize))

find_by_short_3letters(s3, short_3letters, normalize) ==
    mapping_get(s3, _maybe_normalize(short_3letters, normalize))

find_anywhere(long, s2, s3, country) ==
    LET normalized_name == normalize_country(country)
        by_long == find_by_long_name(long, normalized_name, FALSE)
        by_s2 == find_by_short_2letters(s2, normalized_name, FALSE)
        by_s3 == find_by_short_3letters(s3, normalized_name, FALSE)
    IN  IF by_long # None THEN by_long
        ELSE IF by_s2 # None THEN by_s2
        ELSE by_s3

\* one element of Movie._shorten_countries
shorten_country(long, s2, s3, original_country) ==
    LET found_entry == find_anywhere(long, s2, s3, original_country)
        found_shortened == IF found_entry # None
                           THEN get_shorter_abbrev(Val(found_entry)) ELSE None
    IN  IF found_shortened = None THEN original_country ELSE Val(found_shortened)

_shorten_countries(long, s2, s3, original_countries) ==
    [i \in DOMAIN original_countries |->
        shorten_country(long, s2, s3, original_countries[i])]

(***************************************************************************)
(* CountryDb.get_singleton.  The source file country_db.json is an input:  *)
(* None when the file is missing, else Some(list of serialized records).   *)
(***************************************************************************)
RECURSIVE load_entries(_, _, _, _, _)
\* after insert_entry returned r for entry number i: a ValueError ends the
\* constructor, otherwise the loop goes on
load_after_insert(records, i, r) ==
    IF r.raised
    THEN [raised |-> TRUE, long |-> r.long, s2 |-> r.s2, s3 |-> r.s3]
    ELSE load_entries(records, i + 1, r.long, r.s2, r.s3)

\* CountryDb.__init__ from entry number i on
load_entries(records, i, long, s2, s3) ==
    IF i > Len(records)
    THEN [raised |-> FALSE, long |-> long, s2 |-> s2, s3 |-> s3]
    ELSE load_after_insert(records, i,
                           insert_entry(long, s2, s3, from_dict(i, records[i])))

(***************************************************************************)
(* What json.load reads from country_db.json: a list of records.  A value  *)
(* is [type, text]: a string, null, or a value of another type given by    *)
(* its JSON text.  A record is [isdict, fields]: a JSON object, or a value *)
(* of another type in the place of one.                                    *)
(***************************************************************************)
JsonNull == [type |-> "null", text |-> <<>>]
JsonString(s) == [type |-> "str", text |-> s]
JsonOther(type, text) == [type |-> type, text |-> text]

\* the value of an Optional[str]
json_of(o) == IF o = None THEN JsonNull ELSE JsonString(Val(o))

\* the record of a dict of Optional[str]
json_record(d) == [isdict |-> TRUE, fields |-> [k \in DOMAIN d |-> json_of(d[k])]]

json_list(l) == [i \in DOMAIN l |-> json_record(l[i])]

\* d.get(field) on a record that is a JSON object
json_get(record, field) ==
    IF field \in DOMAIN record.fields THEN record.fields[field] ELSE JsonNull

\* Python truthiness: None, '', 0, false, [] and {} are falsy
json_truthy(v) ==
    IF v.type = "null" THEN FALSE
    ELSE IF v.type = "str" THEN v.text # <<>>
    ELSE v.text \notin { <<"0">>, <<"f", "a", "l", "s", "e">>, <<"[", "]">>, <<"{", "}">> }

\* CountryEntry.__init__ normalizes every truthy field with str methods: a
\* truthy value that is not a str raises AttributeError
field_raises(v) == json_truthy(v) /\ v.type # "str"

CountryFields == {"long_name", "short_2letters", "short_3letters"}

\* CountryEntry.from_dict(d) raises: d has no get method, or a field raises
from_dict_raises(record) ==
    \/ ~record.isdict
    \/ \E field \in CountryFields : field_raises(json_get(record, field))

\* the fields CountryEntry.from_dict(d) reads when it does not raise; a falsy
\* value is never normalized, and is read here as None
fields_read(record) ==
    [field \in CountryFields |->
        IF json_get(record, field).type = "str"
        THEN Some(json_get(record, field).text) ELSE None]

\* CountryDb.from_serializable_list(l): every entry is built, then inserted
from_serializable_list(l) ==
    IF \E i \in DOMAIN l : from_dict_raises(l[i])
    THEN [raised |-> TRUE, long |-> {}, s2 |-> {}, s3 |-> {}]
    ELSE load_entries([i \in DOMAIN l |-> fields_read(l[i])], 1, {}, {}, {})

\* get_singleton with _SINGLETON_INSTANCE = instance (None or Some(catalog)):
\* the catalog returned, the new _SINGLETON_INSTANCE, whether the source was
\* read, and whether the call raised (missing file or duplicate key)
\* cls._SINGLETON_INSTANCE = cls.from_serializable_list(raw_db), built being
\* what from_serializable_list produced
singleton_assign(built) ==
    IF built.raised
    THEN [raised |-> TRUE, db |-> None, instance |-> None, loaded |-> TRUE]
    ELSE [raised |-> FALSE, db |-> built, instance |-> Some(built), loaded |-> TRUE]

get_singleton(instance, source) ==
    IF instance # None
    THEN [raised |-> FALSE, db |-> Val(instance), instance |-> instance, loaded |-> FALSE]
    ELSE IF source = None
    THEN [raised |-> TRUE, db |-> None, instance |-> None, loaded |-> TRUE]
    ELSE singleton_assign(from_serializable_list(Val(source)))

(***************************************************************************)
(* Movie                                                                   *)
(***************************************************************************)
_calculate_list(raw) == IF raw = None THEN None ELSE Some(join(<<",", " ">>, Val(raw)))

\* Movie.__init__(title, year, imdb_id): title None makes set_title raise
Movie(title, year, imdb_id) ==
    IF title = None
    THEN [raised |-> TRUE, movie |-> None]
    ELSE [raised |-> FALSE,
          movie |-> Some([title |-> set_title(Val(title)),
                          year |-> year,
                          imdb_id |-> imdb_id,
                          _raw_actors |-> None,
                          actors |-> cleanse_string(None, TRUE, DefaultWildcard),
                          director |-> cleanse_string(None, TRUE, DirectorWildcard),
                          _raw_countries |-> None,
                          countries |-> cleanse_string(None, TRUE, DefaultWildcard)])]

\* Movie.from_json(parsed_json)
from_json(parsed_json) ==
    Movie(dict_get(parsed_json, "Title"),
          safe_parse_int(dict_get(parsed_json, "Year")),
          dict_get(parsed_json, "imdbID"))

\* the comma-separated parts of a string, each stripped
stripped_parts(raw) ==
    LET parts == split_on(raw, ",") IN [i \in DOMAIN parts |-> strip(parts[i])]

_extract_actors_list(raw_actors) == stripped_parts(raw_actors)

\* Movie.set_actors(actors)
set_actors(m, actors) ==
    [m EXCEPT !._raw_actors = actors,
              !.actors = cleanse_string(_calculate_list(actors), TRUE, DefaultWildcard)]

\* the assignments of Movie.set_countries once _raw_countries is known
store_countries(m, raw) ==
    [m EXCEPT !._raw_countries = raw,
              !.countries = cleanse_string(_calculate_list(raw), TRUE, DefaultWildcard)]

\* Movie.set_countries(countries), got being what CountryDb.get_singleton()
\* returns: the catalog is asked for only when countries is not None, and its
\* failure is raised
set_countries(m, countries, got) ==
    IF countries = None
    THEN [raised |-> FALSE, movie |-> store_countries(m, None)]
    ELSE IF got.raised
    THEN [raised |-> TRUE, movie |-> m]
    ELSE [raised |-> FALSE,
          movie |-> store_countries(m,
                      Some(_shorten_countries(got.db.long, got.db.s2, got.db.s3,
                                              stripped_parts(Val(countries)))))]

\* Movie._add_details(actors, director, countries)
_add_details(m, actors, director, countries, got) ==
    set_countries(
        [set_actors(m, actors) EXCEPT
            !.director = cleanse_string(director, TRUE, DirectorWildcard)],
        countries, got)

\* Movie.expand_details_from_json(parsed_json): [raised, movie]
expand_details_from_json(m, parsed_json, got) ==
    _add_details(m,
                 IF dict_get(parsed_json, "Actors") = None THEN None
                 ELSE Some(_extract_actors_list(Val(dict_get(parsed_json, "Actors")))),
                 dict_get(parsed_json, "Director"),
                 dict_get(parsed_json, "Country"),
                 got)

\* _SINGLETON_INSTANCE after expand_details_from_json(parsed_json)
instance_after_expand(parsed_json, instance, got) ==
    IF dict_get(parsed_json, "Country") = None THEN instance ELSE got.instance

\* str(value) of the year: an int, or None
str_of_year(year) ==
    IF year = None THEN <<"N", "o", "n", "e">> ELSE str_of_nat(Val(year))

\* folder_name_template.safe_substitute(self.__dict__)
to_formatted_filename(m) ==
    m.title \o <<" ", "(">> \o m.countries \o <<" ">> \o str_of_year(m.year)
    \o <<",", " ">> \o m.director \o <<" ", "-", " ">> \o m.actors \o <<")">>

(***************************************************************************)
(* MovieConfig: the override file config.json of a folder.  A file is      *)
(* [corrupt, imdbID, Title]: corrupt when json.load raises on it,          *)
(* otherwise the two fields of the object, None for a missing or null one. *)
(***************************************************************************)
MovieConfig(imdb_id, title) == [imdb_id |-> imdb_id, title |-> title]

\* MovieConfig.from_json(json.load(open_file))
config_from_json(file) == MovieConfig(file.imdbID, file.Title)

\* the file MovieConfig.write_to_file leaves
write_to_file(config) ==
    [corrupt |-> FALSE, imdbID |-> config.imdb_id, Title |-> config.title]

(***************************************************************************)
(* The provider.  An answer to search_for_title or get_movie_details is    *)
(* [kind, json]: "raise" (the request or its decoding raised), "none"      *)
(* (Response is not true, or the result list is empty) or "ok" with the    *)
(* object returned.                                                        *)
(***************************************************************************)
Answer(kind, json) == [kind |-> kind, json |-> json]

\* a Movie built by from_json (b is [raised, movie]) and then expanded
\* with parsed_json
expand_built(b, parsed_json, got) ==
    IF b.raised
    THEN [raised |-> TRUE, movie |-> None]
    ELSE IF expand_details_from_json(Val(b.movie), parsed_json, got).raised
    THEN [raised |-> TRUE, movie |-> None]
    ELSE [raised |-> FALSE,
          movie |-> Some(expand_details_from_json(Val(b.movie), parsed_json, got).movie)]

\* Movie.from_imdb_id(imdb_id), details being the provider's answer to
\* get_movie_details(imdb_id): [raised, movie]
from_imdb_id(details, got) ==
    IF details.kind = "raise" THEN [raised |-> TRUE, movie |-> None]
    ELSE IF details.kind = "none" THEN [raised |-> FALSE, movie |-> None]
    ELSE expand_built(from_json(details.json), details.json, got)

\* Movie.from_filename(filename), search and details being the provider's
\* answers to search_for_title and get_movie_details(rv.imdb_id): every
\* exception, that of expand_details_from_json(None) included, gives None
from_filename(search, details, got) ==
    IF search.kind # "ok" THEN None
    ELSE IF details.kind # "ok" THEN None
    ELSE expand_built(from_json(search.json), details.json, got).movie

\* prompt_imdb_id(): typed is the line the prompt ends with, None for a blank
\* one, and built what _movie_constructor made of the provider's answer for
\* it, as from_imdb_id does; [accepted, movie]
prompt_imdb_id(typed, built) ==
    IF typed = None THEN [accepted |-> TRUE, movie |-> None]
    ELSE [accepted |-> ~built.raised /\ built.movie # None, movie |-> built.movie]

\* prompt_movie_title(title_from_imdb, title_from_dirname, IMDB): option is
\* the option the prompt ends with, manual the title typed for option m
prompt_movie_title(title_from_imdb, title_from_dirname, option, manual) ==
    IF option = "i" THEN title_from_imdb
    ELSE IF option = "d" THEN title_from_dirname
    ELSE strip(manual)

(***************************************************************************)
(* get_movie_for_dir.  Its result is [outcome, movie, written, consulted,  *)
(* path, called_extract, called_search, details, chosen]: outcome is       *)
(* "none" (None returned), "movie" or "raised"; written is the override    *)
(* file it wrote, if any; consulted tells whether CountryDb.get_singleton  *)
(* was called; the other fields record the path taken.                     *)
(***************************************************************************)
Result(outcome, movie, written, consulted, path, extract, search, details, chosen) ==
    [outcome |-> outcome, movie |-> movie, written |-> written,
     consulted |-> consulted, path |-> path,
     called_extract |-> extract, called_search |-> search,
     details |-> details, chosen |-> chosen]

\* get_singleton is called by set_countries when a Movie was built (b is
\* what from_json returned) and the details name countries
consults(b, details) ==
    /\ details.kind = "ok"
    /\ ~b.raised
    /\ dict_get(details.json, "Country") # None

\* the Movie of an override file whose title is not applied
apply_optional_title_skipped(movie, optional_title) == movie

\* if optional_title is not None: movie.set_title(optional_title)
apply_optional_title(movie, optional_title) ==
    IF optional_title = None THEN movie
    ELSE [movie EXCEPT !.title = set_title(Val(optional_title))]

\* len(filenames) == 0
skip_empty_dir ==
    Result("none", None, None, FALSE, "empty", FALSE, FALSE, None, None)

\* the branch of a folder that holds config.json: file is its content,
\* details the provider's answer to get_movie_details(movie_config.imdb_id)
\* and built what Movie.from_imdb_id made of it
from_override(file, details, built) ==
    IF file.corrupt
    THEN Result("raised", None, None, FALSE, "override", FALSE, FALSE, None, None)
    ELSE IF built.raised
    THEN Result("raised", None, None, consults(from_json(details.json), details),
                "override", FALSE, FALSE, None, None)
    ELSE IF built.movie = None
    THEN Result(IF config_from_json(file).title = None THEN "none" ELSE "raised",
                None, None, FALSE, "override", FALSE, FALSE, None, None)
    ELSE Result("movie",
                Some(apply_optional_title(Val(built.movie), config_from_json(file).title)),
                None, consults(from_json(details.json), details),
                "override", FALSE, FALSE, Some(details.json),
                config_from_json(file).title)

\* the branch of a folder without config.json when Movie.from_filename
\* returned the movie found
from_search(found, search, details) ==
    Result("movie", found, None, consults(from_json(search.json), details),
           "search", TRUE, TRUE, Some(details.json), None)

\* the same branch when Movie.from_filename returned None and prompt_imdb_id
\* returned movie: chosen is what prompt_movie_title returned
from_prompted_movie(movie, chosen, consulted, details) ==
    Result("movie",
           Some([movie EXCEPT !.title = set_title(chosen)]),
           Some(write_to_file(MovieConfig(movie.imdb_id, Some(chosen)))),
           consulted, "prompt", TRUE, TRUE, Some(details.json), Some(chosen))

\* the same branch, prompted being what prompt_imdb_id returned: movie.title
\* raises when it is None
from_prompt(prompted, title_from_dirname, option, manual, consulted, details) ==
    IF prompted = None
    THEN Result("raised", None, None, consulted, "prompt", TRUE, TRUE, None, None)
    ELSE from_prompted_movie(
             Val(prompted),
             prompt_movie_title(Val(prompted).title, title_from_dirname, option, manual),
             consulted, details)

\* get_movie_for_dir on a folder without config.json: found is what
\* Movie.from_filename returned, prompted what prompt_imdb_id returned for the
\* line typed and the provider's answer for it
first_time(dirname, found, search, details, prompted, typed, answer, option, manual) ==
    IF found # None
    THEN from_search(found, search, details)
    ELSE from_prompt(prompted,
                     extract_info_from_dirname(dirname).title, option, manual,
                     \/ /\ search.kind = "ok"
                        /\ consults(from_json(search.json), details)
                     \/ /\ typed # None
                        /\ consults(from_json(answer.json), answer),
                     answer)

\* walk_folder(base_folder): one entry per subfolder, with the names of its files
filenames_of(folder) ==
    (IF folder.media THEN {"movie.mkv"} ELSE {})
    \cup (IF folder.config # None THEN {"config.json"} ELSE {})

walk_folder(fs) ==
    [i \in DOMAIN fs |->
        [id |-> i, dirname |-> fs[i].name, filenames |-> filenames_of(fs[i])]]

\* os.rename(original, new) succeeds when the system allows it and no other
\* folder bears the new name
rename_folder(fs, id, new, allowed) ==
    allowed /\ \A j \in DOMAIN fs : j # id => fs[j].name # new

\* no iteration of the loop yet
NoVisit ==
    [id |-> 0, path |-> "none", outcome |-> "none", movie |-> None, label |-> None,
     called_extract |-> FALSE, called_search |-> FALSE, details |-> None,
     chosen |-> None, wrote |-> FALSE, renamed |-> FALSE]

(***************************************************************************)
(* Each specification below runs one part of the program; the variables of *)
(* the other parts rest at these values.                                   *)
(***************************************************************************)
NoQuery == [kind |-> "none", arg |-> <<>>]

CatalogIdle ==
    /\ c_pc = "idle"
    /\ c_records = <<>>
    /\ c_next = 1
    /\ c_long = {}
    /\ c_s2 = {}
    /\ c_s3 = {}
    /\ c_error = None
    /\ c_query = NoQuery
    /\ c_found = None
    /\ c_shortened = <<>>

TextIdle ==
    /\ t_pc = "idle"
    /\ t_in = <<>>
    /\ t_replace = TRUE
    /\ t_wildcard = DefaultWildcard
    /\ t_clean = <<>>
    /\ t_parsed = [title |-> <<>>, year |-> None]
    /\ t_title = <<>>

SingletonIdle ==
    /\ s_source = None
    /\ s_instance = None

\* no call of get_singleton yet
NoCall == [raised |-> FALSE, db |-> None]

CallsIdle ==
    /\ g_calls = 0
    /\ g_reads = 0
    /\ g_returned = NoCall
    /\ g_first = None

MovieIdle ==
    /\ m_pc = "idle"
    /\ m_json = <<>>
    /\ m_details = <<>>
    /\ m_movie = None
    /\ m_label = <<>>

FoldersIdle ==
    /\ f_pc = "idle"
    /\ f_run = 0
    /\ f_dry = FALSE
    /\ f_fs = <<>>
    /\ f_list = <<>>
    /\ f_i = 1
    /\ f_visit = NoVisit
    /\ f_written = <<>>

(***************************************************************************)
(* Catalog construction and lookups.                                       *)
(***************************************************************************)
LongNames == { None, Some(<<"O", "m", "a", "n">>), Some(<<"T", "h", "e", " ", "O", "M">>) }
Short2s == { None, Some(<<"O", "M">>), Some(<<"F", "R">>) }
Short3s == { None, Some(<<"O", "M", "N">>), Some(<<"F", "R", "A">>) }

SerializedRecords ==
    { [long_name |-> l, short_2letters |-> a, short_3letters |-> b] :
        l \in LongNames, a \in Short2s, b \in Short3s }

RECURSIVE SeqsUpTo(_, _)
\* the sequences over S of length at most n
SeqsUpTo(S, n) ==
    IF n = 0 THEN {<<>>}
    ELSE LET shorter == SeqsUpTo(S, n - 1)
         IN  shorter \cup {Append(q, x) : q \in {r \in shorter : Len(r) = n - 1}, x \in S}

\* the strings looked up: a long name, a 2-letter code, a 3-letter code, a stranger
Countries ==
    { <<"O", "M", "A", "N">>, <<"o", "m">>, <<"O", "M", "N">>, <<"Z", "z">> }

\* CountryDb.from_serializable_list(c_records) is entered: empty mappings
CatalogInit ==
    /\ c_pc = "loading"
    /\ c_records \in SeqsUpTo(SerializedRecords, MaxEntries)
    /\ c_next = 1
    /\ c_long = {}
    /\ c_s2 = {}
    /\ c_s3 = {}
    /\ c_error = None
    /\ c_query = NoQuery
    /\ c_found = None
    /\ c_shortened = <<>>
    /\ TextIdle
    /\ SingletonIdle
    /\ MovieIdle
    /\ FoldersIdle
    /\ CallsIdle

\* one turn of the constructor's loop: self.insert_entry(entry)
InsertEntry ==
    /\ c_pc = "loading"
    /\ c_next <= Len(c_records)
    /\ \E r \in {insert_entry(c_long, c_s2, c_s3, from_dict(c_next, c_records[c_next]))} :
           /\ c_long' = r.long
           /\ c_s2' = r.s2
           /\ c_s3' = r.s3
           /\ c_error' = r.error
           /\ c_pc' = IF r.raised THEN "failed" ELSE "loading"
           /\ c_next' = IF r.raised THEN c_next ELSE c_next + 1
    /\ UNCHANGED <<c_records, c_query, c_found, c_shortened>>
    /\ UNCHANGED not_catalog

\* the constructor returns the catalog
FinishLoad ==
    /\ c_pc = "loading"
    /\ c_next > Len(c_records)
    /\ c_pc' = "built"
    /\ UNCHANGED <<c_records, c_next, c_long, c_s2, c_s3, c_error, c_query, c_found,
                   c_shortened>>
    /\ UNCHANGED not_catalog

\* a lookup on the loaded catalog; it reads the mappings and changes none
Lookup(kind, arg, result) ==
    /\ c_pc = "built"
    /\ c_pc' = "answered"
    /\ c_query' = [kind |-> kind, arg |-> arg]
    /\ c_found' = result
    /\ UNCHANGED <<c_records, c_next, c_long, c_s2, c_s3, c_error, c_shortened>>
    /\ UNCHANGED not_catalog

FindByLongName ==
    \E name \in Countries : Lookup("long", name, find_by_long_name(c_long, name, TRUE))

FindByShort2 ==
    \E name \in Countries : Lookup("short2", name, find_by_short_2letters(c_s2, name, TRUE))

FindByShort3 ==
    \E name \in Countries : Lookup("short3", name, find_by_short_3letters(c_s3, name, TRUE))

FindAnywhere ==
    \E name \in Countries : Lookup("anywhere", name, find_anywhere(c_long, c_s2, c_s3, name))

\* Movie._shorten_countries(original_countries) on the loaded catalog
ShortenCountries ==
    /\ c_pc = "built"
    /\ \E original_countries \in SeqsUpTo(Countries, MaxCountries) :
          /\ c_query' = [kind |-> "shorten", arg |-> original_countries]
          /\ c_shortened' = _shorten_countries(c_long, c_s2, c_s3, original_countries)
    /\ c_pc' = "answered"
    /\ UNCHANGED <<c_records, c_next, c_long, c_s2, c_s3, c_error, c_found>>
    /\ UNCHANGED not_catalog

CatalogNext ==
    \/ InsertEntry
    \/ FinishLoad
    \/ FindByLongName
    \/ FindByShort2
    \/ FindByShort3
    \/ FindAnywhere
    \/ ShortenCountries

SpecCatalog == CatalogInit /\ [][CatalogNext]_vars

(***************************************************************************)
(* Claims about the catalog (checked under SpecCatalog).                   *)
(***************************************************************************)
\* the entries the constructor is given, in order
Entries == [i \in DOMAIN c_records |-> from_dict(i, c_records[i])]

SharedKey(a, b) == a # None /\ a = b

\* two records share a normalized key in the same field
SameFieldCollision ==
    \E i, j \in DOMAIN c_records :
        /\ i < j
        /\ \/ SharedKey(Entries[i]._normalized_long_name, Entries[j]._normalized_long_name)
           \/ SharedKey(Entries[i]._normalized_short_2letters,
                        Entries[j]._normalized_short_2letters)
           \/ SharedKey(Entries[i]._normalized_short_3letters,
                        Entries[j]._normalized_short_3letters)

Loaded == c_pc \in {"built", "answered"}

\* C1: when no two records share a normalized long name, 2-letter code or
\* 3-letter code, construction succeeds and each of find_by_long_name,
\* find_by_short_2letters and find_by_short_3letters returns exactly the
\* entry inserted with that field, for every entry and every non-null field.
C1_LoadAndFindEachKey ==
    ~SameFieldCollision =>
        /\ c_pc # "failed"
        /\ Loaded =>
              \A i \in DOMAIN c_records :
                 LET e == Entries[i] IN
                 /\ e.long_name # None =>
                       find_by_long_name(c_long, Val(e.long_name), TRUE) = Some(e)
                 /\ e.short_2letters # None =>
                       find_by_short_2letters(c_s2, Val(e.short_2letters), TRUE) = Some(e)
                 /\ e.short_3letters # None =>
                       find_by_short_3letters(c_s3, Val(e.short_3letters), TRUE) = Some(e)

\* C2: when two records share a normalized key in the same field (long name,
\* 2-letter code or 3-letter code), construction raises and no catalog is
\* produced.
C2_DuplicateKeyAbortsLoad ==
    SameFieldCollision => ~Loaded

\* the entries registered under key in one field
RegisteredLong(key) ==
    {i \in DOMAIN c_records : Entries[i]._normalized_long_name = Some(key)}
RegisteredShort2(key) ==
    {i \in DOMAIN c_records : Entries[i]._normalized_short_2letters = Some(key)}
RegisteredShort3(key) ==
    {i \in DOMAIN c_records : Entries[i]._normalized_short_3letters = Some(key)}

FoundAmong(S) == c_found # None /\ Val(c_found).idx \in S

\* C9: Movie._shorten_countries maps element by element: same length and
\* order, an element whose find_anywhere entry has an abbreviation becomes
\* that entry's 2-letter code if present, else its 3-letter code, and any
\* other element is output unchanged.
C9_ShortenElementwise ==
    (c_pc = "answered" /\ c_query.kind = "shorten") =>
        /\ Len(c_shortened) = Len(c_query.arg)
        /\ \A i \in DOMAIN c_query.arg :
              LET found == find_anywhere(c_long, c_s2, c_s3, c_query.arg[i]) IN
              IF found # None /\ Val(found).short_2letters # None
              THEN c_shortened[i] = Val(Val(found).short_2letters)
              ELSE IF found # None /\ Val(found).short_3letters # None
              THEN c_shortened[i] = Val(Val(found).short_3letters)
              ELSE c_shortened[i] = c_query.arg[i]

\* a two-element list whose first element is abbreviated to a 3-letter code
\* (its entry has no 2-letter code) and whose second element has no match
C9_Witness ==
    /\ c_pc = "answered" /\ c_query.kind = "shorten"
    /\ Len(c_query.arg) = 2
    /\ LET first == find_anywhere(c_long, c_s2, c_s3, c_query.arg[1]) IN
          /\ first # None
          /\ Val(first).short_2letters = None
          /\ Val(first).short_3letters # None
          /\ c_shortened[1] = Val(Val(first).short_3letters)
          /\ c_shortened[1] # c_query.arg[1]
    /\ find_anywhere(c_long, c_s2, c_s3, c_query.arg[2]) = None
    /\ c_shortened[2] = c_query.arg[2]

\* C10: find_anywhere returns the entry registered under the normalized
\* argument as a long name if there is one, otherwise the one registered
\* under it as a 2-letter code, otherwise the one registered under it as a
\* 3-letter code, otherwise nothing.
C10_FindAnywhereOrder ==
    (c_pc = "answered" /\ c_query.kind = "anywhere") =>
        LET key == normalize_country(c_query.arg) IN
        IF RegisteredLong(key) # {} THEN FoundAmong(RegisteredLong(key))
        ELSE IF RegisteredShort2(key) # {} THEN FoundAmong(RegisteredShort2(key))
        ELSE IF RegisteredShort3(key) # {} THEN FoundAmong(RegisteredShort3(key))
        ELSE c_found = None

\* the field of an entry that an error message names
NamedField(entry, field_name) ==
    IF field_name = "long name" THEN entry._normalized_long_name
    ELSE IF field_name = "short 2 letters name" THEN entry._normalized_short_2letters
    ELSE IF field_name = "short 3 letters name" THEN entry._normalized_short_3letters
    ELSE None

\* C15: when insert_entry fails on a duplicate key, the error names the two
\* colliding entries and the field that clashed: the named field is present
\* in both entries and equal after normalization.
C15_ErrorNamesClashedField ==
    c_pc = "failed" =>
        /\ c_error # None
        /\ Val(c_error).new = c_next
        /\ Val(c_error).existing \in 1..(c_next - 1)
        /\ NamedField(Entries[Val(c_error).new], Val(c_error).field) # None
        /\ NamedField(Entries[Val(c_error).new], Val(c_error).field)
              = NamedField(Entries[Val(c_error).existing], Val(c_error).field)

\* the failures whose message names the long name do name the clashing field
LongNameClashNamed ==
    (c_pc = "failed" /\ Val(c_error).field = "long name") =>
        /\ Entries[Val(c_error).new]._normalized_long_name # None
        /\ Entries[Val(c_error).new]._normalized_long_name
              = Entries[Val(c_error).existing]._normalized_long_name

(***************************************************************************)
(* One Movie: built from a provider record, expanded, rendered.            *)
(***************************************************************************)
\* a JSON object: the fields of r that are not None
json_object(r) == [k \in {f \in DOMAIN r : r[f] # None} |-> r[k]]

GoodSource ==
    << [long_name |-> Some(<<"O", "m", "a", "n">>), short_2letters |-> Some(<<"O", "M">>),
        short_3letters |-> Some(<<"O", "M", "N">>)],
       [long_name |-> Some(<<"F", "r">>), short_2letters |-> None,
        short_3letters |-> Some(<<"F", "R", "A">>)] >>

DuplicateSource ==
    << [long_name |-> Some(<<"O", "m", "a", "n">>), short_2letters |-> None,
        short_3letters |-> None],
       [long_name |-> Some(<<"O", "M", "A", "N">>), short_2letters |-> None,
        short_3letters |-> None] >>

CatalogSources == { None, Some(json_list(GoodSource)), Some(json_list(DuplicateSource)) }

JsonTitles == { None, Some(<<"T", "h", "e", " ", "a">>), Some(<<"a", ":", "b">>) }
JsonYears == { None, Some(<<"1", "9", "9", "5">>), Some(<<"1", "9", "9", "5", "-">>),
               Some(<<"0", "0", "9", "5">>) }
JsonIds == { None, Some(<<"t", "t", "1">>) }
JsonActors == { None, Some(<<"A", ",", " ", "B", "/", "C">>) }
JsonDirectors == { None, Some(<<"D", "/", "E">>) }
JsonCountries == { None, Some(<<"O", "m", "a", "n", ",", "Z", "z">>) }

BasicRecords ==
    { json_object([Title |-> t, Year |-> y, imdbID |-> i]) :
        t \in JsonTitles, y \in JsonYears, i \in JsonIds }

DetailRecords ==
    { json_object([Actors |-> a, Director |-> d, Country |-> c]) :
        a \in JsonActors, d \in JsonDirectors, c \in JsonCountries }

MovieInit ==
    /\ m_pc = "start"
    /\ m_json \in BasicRecords
    /\ m_details \in DetailRecords
    /\ m_movie = None
    /\ m_label = <<>>
    /\ s_source \in CatalogSources
    /\ s_instance = None
    /\ TextIdle
    /\ CatalogIdle
    /\ FoldersIdle
    /\ CallsIdle

\* Movie.from_json(m_json)
FromJson ==
    /\ m_pc = "start"
    /\ \E r \in {from_json(m_json)} :
          /\ m_movie' = r.movie
          /\ m_pc' = IF r.raised THEN "failed" ELSE "built"
    /\ UNCHANGED <<m_json, m_details, m_label, s_vars>>
    /\ UNCHANGED not_movie

\* movie.expand_details_from_json(m_details)
ExpandDetails ==
    /\ m_pc = "built"
    /\ \E got \in {get_singleton(s_instance, s_source)} :
       \E r \in {expand_details_from_json(Val(m_movie), m_details, got)} :
          /\ m_movie' = Some(r.movie)
          /\ s_instance' = instance_after_expand(m_details, s_instance, got)
          /\ m_pc' = IF r.raised THEN "failed" ELSE "expanded"
    /\ UNCHANGED <<m_json, m_details, m_label, s_source>>
    /\ UNCHANGED not_movie

\* movie.to_formatted_filename()
Format ==
    /\ m_pc \in {"built", "expanded"}
    /\ m_label' = to_formatted_filename(Val(m_movie))
    /\ m_pc' = "formatted"
    /\ UNCHANGED <<m_json, m_details, m_movie, s_vars>>
    /\ UNCHANGED not_movie

MovieNext ==
    \/ FromJson
    \/ ExpandDetails
    \/ Format

SpecMovie == MovieInit /\ [][MovieNext]_vars

(***************************************************************************)
(* Claims about the Movie (checked under SpecMovie).                       *)
(***************************************************************************)
\* C4: to_formatted_filename renders '{title} ({countries} {year},
\* {director} - {actors})' with every absent field (year, countries,
\* director, actors) as the empty string in its place.
C4_AbsentFieldsRenderEmpty ==
    m_pc = "formatted" =>
        LET m == Val(m_movie) IN
        m_label =
            m.title \o <<" ", "(">>
            \o (IF m._raw_countries = None THEN <<>> ELSE m.countries)
            \o <<" ">>
            \o (IF m.year = None THEN <<>> ELSE str_of_nat(Val(m.year)))
            \o <<",", " ">>
            \o (IF dict_get(m_details, "Director") = None THEN <<>> ELSE m.director)
            \o <<" ", "-", " ">>
            \o (IF m._raw_actors = None THEN <<>> ELSE m.actors)
            \o <<")">>

(***************************************************************************)
(* Text pipeline: inputs are concatenations of at most MaxPieces pieces.   *)
(***************************************************************************)
Pieces ==
    { <<"a">>, <<"B", "7">>, <<" ">>, <<" ", " ">>, <<"?">>, <<"¿">>,
      <<"¡", "!", ".", "'">>, <<",">>, <<":">>,
      <<",", " ", "T", "h", "e">>, <<",", "\t", "t", "h", "e">>,
      <<"T", "h", "e", " ">>, <<"t", "H", "E", " ">>,
      <<"T", "e", "x", "a", "s">>, <<"a", "t", "e", "r">>,
      <<"(", "1", "9", "9", "5", ")">>, <<"(", "c", "0", "0", "8", "4", ")">>,
      <<"[", "x", "]">> }

RECURSIVE Concats(_)
\* all concatenations of at most n pieces
Concats(n) ==
    IF n = 0 THEN {<<>>}
    ELSE LET shorter == Concats(n - 1)
         IN  shorter \cup {s \o p : s \in shorter, p \in Pieces}

TextInputs == Concats(MaxPieces)

TextInit ==
    /\ t_pc = "start"
    /\ t_in \in TextInputs
    /\ t_replace = TRUE
    /\ t_wildcard = DefaultWildcard
    /\ t_clean = <<>>
    /\ t_parsed = [title |-> <<>>, year |-> None]
    /\ t_title = <<>>
    /\ CatalogIdle
    /\ SingletonIdle
    /\ MovieIdle
    /\ FoldersIdle
    /\ CallsIdle

\* cleanse_string(t_in, replace_to_wildcard, wildcard)
Cleanse ==
    /\ t_pc = "start"
    /\ \E replace_to_wildcard \in BOOLEAN,
          wildcard \in {DefaultWildcard, DirectorWildcard} :
          /\ t_replace' = replace_to_wildcard
          /\ t_wildcard' = wildcard
          /\ t_clean' = cleanse_string(Some(t_in), replace_to_wildcard, wildcard)
    /\ t_pc' = "cleansed"
    /\ UNCHANGED <<t_in, t_parsed, t_title>>
    /\ UNCHANGED not_text

\* extract_info_from_dirname(t_in)
Extract ==
    /\ t_pc = "start"
    /\ t_parsed' = extract_info_from_dirname(t_in)
    /\ t_pc' = "extracted"
    /\ UNCHANGED <<t_in, t_replace, t_wildcard, t_clean, t_title>>
    /\ UNCHANGED not_text

\* movie.set_title(title_from_dirname): the DIRNAME naming option
SetTitleFromDirname ==
    /\ t_pc = "extracted"
    /\ t_title' = set_title(t_parsed.title)
    /\ t_pc' = "extracted_stored"
    /\ UNCHANGED <<t_in, t_replace, t_wildcard, t_clean, t_parsed>>
    /\ UNCHANGED not_text

\* movie.set_title(t_in)
SetTitle ==
    /\ t_pc = "start"
    /\ t_title' = set_title(t_in)
    /\ t_pc' = "stored"
    /\ UNCHANGED <<t_in, t_replace, t_wildcard, t_clean, t_parsed>>
    /\ UNCHANGED not_text

\* extract_info_from_dirname(movie.title): the stored title read back
ExtractStored ==
    /\ t_pc = "stored"
    /\ t_parsed' = extract_info_from_dirname(t_title)
    /\ t_pc' = "stored_extracted"
    /\ UNCHANGED <<t_in, t_replace, t_wildcard, t_clean, t_title>>
    /\ UNCHANGED not_text

TextNext ==
    \/ Cleanse
    \/ Extract
    \/ SetTitleFromDirname
    \/ SetTitle
    \/ ExtractStored

SpecText == TextInit /\ [][TextNext]_vars

(***************************************************************************)
(* Claims about the text pipeline (checked under SpecText).                *)
(***************************************************************************)
\* the seven punctuation characters the sanitizer is documented to allow
SevenPunctuation == {"¿", "?", "¡", "!", ".", ",", "'"}

ClaimedChar(c, replace_to_wildcard, wildcard) ==
    IF isalnum(c) \/ isspace(c) \/ c \in SevenPunctuation
    THEN <<c>>
    ELSE IF replace_to_wildcard THEN wildcard ELSE <<>>

RECURSIVE ClaimedChars(_, _, _)
ClaimedChars(s, replace_to_wildcard, wildcard) ==
    IF s = <<>> THEN <<>>
    ELSE ClaimedChar(Head(s), replace_to_wildcard, wildcard)
         \o ClaimedChars(Tail(s), replace_to_wildcard, wildcard)

\* C3: cleanse_string maps every character of the trimmed input on its own:
\* alphanumerics, whitespace and each of the seven punctuation characters are
\* kept, anything else becomes the wildcard (or is dropped when
\* replace_to_wildcard is false); the result is that text with whitespace
\* collapsed.
C3_CleansePerCharacter ==
    t_pc = "cleansed" =>
        t_clean = join(<<" ">>,
                       split(ClaimedChars(strip(t_in), t_replace, t_wildcard)))

\* the position of the comma of a trailing ', the' clause of s, or 0
TrailingArticleComma(s) ==
    LET Ks == {k \in 1..Len(s) :
                 /\ s[k] = ","
                 /\ k + 1 <= Len(s) - 3
                 /\ AllSpace(s, k + 1, Len(s) - 3)
                 /\ IsThe(s, Len(s) - 2)}
    IN  IF Ks = {} THEN 0 ELSE Max(Ks)

\* C7: extract_info_from_dirname reorders the article only when the extracted
\* title ends with ', the': '<core>, the' becomes 'the <core>', and any other
\* title keeps all of its text, sanitization apart.
C7_ReorderOnlyTrailingArticle ==
    t_pc = "extracted" =>
        LET raw == strip(dirname_title(t_in))
            k == TrailingArticleComma(raw)
        IN  t_parsed.title =
              IF k > 0
              THEN cleanse_string(
                     Some(SubSeq(raw, Len(raw) - 2, Len(raw)) \o <<" ">>
                          \o SubSeq(raw, 1, k - 1)),
                     FALSE, DefaultWildcard)
              ELSE cleanse_string(Some(raw), FALSE, DefaultWildcard)

\* a title core of allowed characters, trimmed and single-spaced, that holds
\* no article of its own
IsCore(c) ==
    /\ c # <<>>
    /\ \A i \in DOMAIN c : isalnum(c[i]) \/ c[i] = " " \/ c[i] \in SevenPunctuation
    /\ c = join(<<" ">>, split(c))
    /\ optional_title_match(c) = None
    /\ title_writing_match(c) = None
    /\ ~IsThe(c, 1)

\* C8: the two article rewrites are exact inverses on titles of allowed
\* characters with exactly one article: set_title(extract('<core>, The')) is
\* '<core>, The', and extract(set_title('The <core>')) is 'The <core>'.
C8_RewritesAreInverses ==
    /\ t_pc = "extracted_stored" =>
          \A n \in 1..(Len(t_in) - 5) :
             ( /\ IsCore(SubSeq(t_in, 1, n))
               /\ SubSeq(t_in, n + 1, n + 2) = <<",", " ">>
               /\ n + 5 = Len(t_in)
               /\ IsThe(t_in, n + 3) )
             => t_title = t_in
    /\ ( /\ t_pc = "stored_extracted"
         /\ IsThe(t_in, 1)
         /\ Len(t_in) > 4
         /\ t_in[4] = " "
         /\ IsCore(SubSeq(t_in, 5, Len(t_in))) )
       => t_parsed.title = t_in

(***************************************************************************)
(* The folder reconciler: runs of rename_movie_folders over the subfolders *)
(* of one base path.  Each run is a new process, so it starts without a    *)
(* catalog instance.  The provider and the user are the environment: their *)
(* answers are chosen at each iteration of the loop.                       *)
(***************************************************************************)
\* the name the i-th folder starts with: "1, The (1995)", "2, The (1995)", ...
DirName(i) ==
    str_of_nat(i) \o <<",", " ", "T", "h", "e", " ", "(", "1", "9", "9", "5", ")">>


\* override files found at the start: a corrupt one, one with an id only,
\* one with a title only
FoundConfigs ==
    { [corrupt |-> TRUE, imdbID |-> None, Title |-> None],
      [corrupt |-> FALSE, imdbID |-> Some(<<"t", "t", "1">>), Title |-> None],
      [corrupt |-> FALSE, imdbID |-> None, Title |-> Some(<<"T", "h", "e", " ", "c">>)] }

\* a folder is empty, or holds a movie file and possibly an override file
Folders(n) ==
    { [name |-> n, media |-> TRUE, config |-> c] :
        c \in {None} \cup { Some(f) : f \in FoundConfigs } }
    \cup { [name |-> n, media |-> FALSE, config |-> None] }

\* country_db.json is missing, or holds a catalog that loads
FolderCatalogSources == { None, Some(json_list(GoodSource)) }

\* the provider's details of an id carry that id
FullDetails(id) ==
    json_object([Title |-> Some(<<"T", "h", "e", " ", "a">>),
                 Year |-> Some(<<"1", "9", "9", "5">>),
                 imdbID |-> Some(id),
                 Actors |-> Some(<<"A", ",", " ", "B">>),
                 Director |-> Some(<<"D">>),
                 Country |-> Some(<<"O", "m", "a", "n">>)])

SparseDetails(id) ==
    json_object([Title |-> Some(<<"a", ":", "b">>), imdbID |-> Some(id)])

Failures == { Answer("raise", <<>>), Answer("none", <<>>) }

\* answers to get_movie_details(imdb_id): without an id there are no details
DetailsAnswers(imdb_id) ==
    Failures \cup
    (IF imdb_id = None THEN {}
     ELSE { Answer("ok", FullDetails(Val(imdb_id))),
            Answer("ok", SparseDetails(Val(imdb_id))) })

\* answers to search_for_title: the first result of the search
SearchAnswers ==
    Failures \cup
    { Answer("ok", json_object([Title |-> Some(<<"T", "h", "e", " ", "a">>),
                                Year |-> Some(<<"1", "9", "9", "5">>),
                                imdbID |-> Some(<<"t", "t", "1">>)])),
      Answer("ok", json_object([Title |-> Some(<<"a", ":", "b">>)])) }

TypedIds == { None, Some(<<"t", "t", "2">>) }
Options == {"i", "d", "m"}
ManualTitles == { <<" ", "T", "h", "e", " ", "z">> }

FoldersInit ==
    /\ f_pc = "idle"
    /\ f_run = 0
    /\ f_dry = FALSE
    /\ \E n \in 1..MaxFolders :
          /\ f_fs \in [1..n -> UNION { Folders(DirName(i)) : i \in 1..n }]
          /\ \A i \in 1..n : f_fs[i].name = DirName(i)
          /\ f_written = [i \in 1..n |-> None]
    /\ f_list = <<>>
    /\ f_i = 1
    /\ f_visit = NoVisit
    /\ s_source \in FolderCatalogSources
    /\ s_instance = None
    /\ TextIdle
    /\ CatalogIdle
    /\ MovieIdle
    /\ CallsIdle

\* main(): a new process reads IMDB_DRY_RUN and enters rename_movie_folders,
\* which lists the folders once
StartRun ==
    /\ f_pc = "idle"
    /\ f_run < MaxRuns
    /\ f_run' = f_run + 1
    /\ f_dry' \in BOOLEAN
    /\ f_list' = walk_folder(f_fs)
    /\ f_i' = 1
    /\ f_pc' = "looping"
    /\ f_visit' = NoVisit
    /\ s_instance' = None
    /\ UNCHANGED <<f_fs, f_written, s_source>>
    /\ UNCHANGED not_folders

\* the body of the loop for the entry f_list[f_i], res being what
\* get_movie_for_dir did and label the new name, if a movie was returned
Iteration(id, res, label, allowed, got) ==
    /\ f_fs' = [f_fs EXCEPT
                  ![id].config = IF res.written # None THEN res.written ELSE @,
                  ![id].name = IF /\ label # None
                                  /\ ~f_dry
                                  /\ rename_folder(f_fs, id, Val(label), allowed)
                               THEN Val(label) ELSE @]
    /\ f_visit' = [id |-> id, path |-> res.path, outcome |-> res.outcome,
                   movie |-> res.movie, label |-> label,
                   called_extract |-> res.called_extract,
                   called_search |-> res.called_search,
                   details |-> res.details, chosen |-> res.chosen,
                   wrote |-> res.written # None,
                   renamed |-> /\ label # None
                               /\ ~f_dry
                               /\ rename_folder(f_fs, id, Val(label), allowed)]
    /\ f_written' = [f_written EXCEPT
                       ![id] = IF res.written # None
                               THEN Some([label |-> Val(label),
                                          details |-> Val(res.details)])
                               ELSE @]
    /\ s_instance' = IF res.consulted THEN got.instance ELSE s_instance
    /\ f_i' = f_i + 1
    /\ UNCHANGED <<f_pc, f_run, f_dry, f_list, s_source>>
    /\ UNCHANGED not_folders

\* a new name whatever get_movie_for_dir did
new_dirname_always(res) ==
    IF res.outcome = "movie" THEN Some(to_formatted_filename(Val(res.movie)))
    ELSE Some(<<"N", "o", "n", "e">>)

\* the new name of the folder: movie.to_formatted_filename()
new_dirname(res) ==
    IF res.outcome = "movie" THEN Some(to_formatted_filename(Val(res.movie))) ELSE None

InLoop == f_pc = "looping" /\ f_i <= Len(f_list)

\* an iteration on a folder without files
VisitEmpty ==
    /\ InLoop
    /\ f_list[f_i].filenames = {}
    /\ \E got \in {get_singleton(s_instance, s_source)} :
          Iteration(f_list[f_i].id, skip_empty_dir, None, TRUE, got)

\* an iteration on a folder that holds config.json
VisitOverride ==
    /\ InLoop
    /\ "config.json" \in f_list[f_i].filenames
    /\ \E id \in {f_list[f_i].id} :
       \E file \in {Val(f_fs[id].config)} :
       \E details \in DetailsAnswers(file.imdbID) :
       \E got \in {get_singleton(s_instance, s_source)} :
       \E built \in {from_imdb_id(details, got)} :
       \E res \in {from_override(file, details, built)} :
       \E label \in {new_dirname(res)} :
       \E allowed \in IF label # None /\ ~f_dry THEN BOOLEAN ELSE {TRUE} :
          Iteration(id, res, label, allowed, got)

\* an iteration on a folder with files but without config.json
VisitFirstTime ==
    /\ InLoop
    /\ f_list[f_i].filenames # {}
    /\ "config.json" \notin f_list[f_i].filenames
    /\ \E id \in {f_list[f_i].id} :
       \E search \in SearchAnswers :
       \E details \in DetailsAnswers(IF search.kind = "ok"
                                     THEN dict_get(search.json, "imdbID") ELSE None) :
       \E got \in {get_singleton(s_instance, s_source)} :
       \E found \in {from_filename(search, details, got)} :
       \E typed \in IF found # None THEN {None} ELSE TypedIds :
       \E typed_details \in IF typed = None THEN {Answer("none", <<>>)}
                            ELSE DetailsAnswers(typed) :
       \E prompted \in {prompt_imdb_id(typed, from_imdb_id(typed_details, got))} :
       \E option \in IF prompted.movie = None THEN {"i"} ELSE Options :
       \E manual \in ManualTitles :
       \E res \in {first_time(f_list[f_i].dirname, found, search, details,
                              prompted.movie, typed, typed_details, option, manual)} :
       \E label \in {new_dirname(res)} :
       \E allowed \in IF label # None /\ ~f_dry THEN BOOLEAN ELSE {TRUE} :
          /\ prompted.accepted
          /\ Iteration(id, res, label, allowed, got)

\* the loop is over and the process ends
EndRun ==
    /\ f_pc = "looping"
    /\ f_i > Len(f_list)
    /\ f_pc' = "idle"
    /\ UNCHANGED <<f_run, f_dry, f_fs, f_list, f_i, f_visit, f_written, s_vars>>
    /\ UNCHANGED not_folders

FoldersNext ==
    \/ StartRun
    \/ VisitEmpty
    \/ VisitOverride
    \/ VisitFirstTime
    \/ EndRun

SpecFolders == FoldersInit /\ [][FoldersNext]_vars

\* the override file of the folder of the last iteration
VisitedConfig == f_fs[f_visit.id].config

\* C5: whenever get_movie_for_dir returns a movie for a folder without
\* config.json, whether Movie.from_filename found it by the search or the user
\* typed its id, the folder holds from then on an override file with the
\* movie's id and the chosen title.
C5_FirstResolutionWritesOverride ==
    (f_visit.path \in {"search", "prompt"} /\ f_visit.outcome = "movie") =>
        /\ VisitedConfig # None
        /\ ~Val(VisitedConfig).corrupt
        /\ Val(VisitedConfig).imdbID = Val(f_visit.movie).imdb_id
        /\ Val(VisitedConfig).Title # None
        /\ Val(f_visit.movie).title = set_title(Val(Val(VisitedConfig).Title))

\* the run that wrote the override of the folder of the last iteration, if any
VisitedWritten == f_written[f_visit.id]

\* C6: an iteration on a folder that holds config.json calls neither
\* extract_info_from_dirname nor search_for_title; the movie it returns is the
\* provider's movie of the stored id under the stored title; and when the
\* provider's details are those of the run that wrote the file, the label is
\* the label of that run.
C6_OverrideReused ==
    f_visit.path = "override" =>
        /\ ~f_visit.called_extract
        /\ ~f_visit.called_search
        /\ f_visit.outcome = "movie" =>
              /\ dict_get(Val(f_visit.details), "imdbID") = Val(VisitedConfig).imdbID
              /\ Val(f_visit.movie).imdb_id = Val(VisitedConfig).imdbID
              /\ Val(VisitedConfig).Title # None =>
                    Val(f_visit.movie).title = set_title(Val(Val(VisitedConfig).Title))
              /\ (/\ VisitedWritten # None
                  /\ Val(VisitedWritten).details = Val(f_visit.details)) =>
                    f_visit.label = Some(Val(VisitedWritten).label)

\* a later run renames by an override that stores a title other than the
\* provider's, and produces the label of the run that wrote it
C6_Witness ==
    /\ f_visit.path = "override"
    /\ f_visit.outcome = "movie"
    /\ f_run = 2
    /\ VisitedWritten # None
    /\ Val(VisitedWritten).details = Val(f_visit.details)
    /\ f_visit.label = Some(Val(VisitedWritten).label)
    /\ Val(VisitedConfig).Title # dict_get(Val(f_visit.details), "Title")
    /\ Val(f_visit.movie).title # from_json(Val(f_visit.details)).movie[1].title

(***************************************************************************)
(* One process calling CountryDb.get_singleton again and again, on a       *)
(* country_db.json that is missing or holds records of any shape.          *)
(***************************************************************************)
Oman == <<"O", "m", "a", "n">>

\* records of the expected shape, and records without it: fields missing, a
\* number or a list for a name, a string in the place of the record
SourceRecords ==
    { json_record(GoodSource[1]),
      json_record(GoodSource[2]),
      json_record(DuplicateSource[2]),
      [isdict |-> TRUE, fields |-> [k \in {"long_name"} |-> JsonString(Oman)]],
      [isdict |-> TRUE, fields |-> [k \in {} |-> JsonNull]],
      [isdict |-> TRUE,
       fields |-> [k \in CountryFields |->
                     IF k = "long_name" THEN JsonOther("int", <<"5">>) ELSE JsonNull]],
      [isdict |-> TRUE,
       fields |-> [k \in CountryFields |->
                     IF k = "long_name" THEN JsonString(Oman)
                     ELSE IF k = "short_2letters" THEN JsonOther("list", <<"[", "]">>)
                     ELSE JsonOther("int", <<"0">>)]],
      [isdict |-> FALSE, fields |-> [k \in {} |-> JsonNull]] }

SourceFiles ==
    {None} \cup { Some(l) : l \in SeqsUpTo(SourceRecords, MaxEntries) }

SingletonInit ==
    /\ s_source \in SourceFiles
    /\ s_instance = None
    /\ CallsIdle
    /\ TextIdle
    /\ CatalogIdle
    /\ MovieIdle
    /\ FoldersIdle

\* one call of CountryDb.get_singleton()
GetSingleton ==
    /\ g_calls < MaxCalls
    /\ \E got \in {get_singleton(s_instance, s_source)} :
          /\ s_instance' = got.instance
          /\ g_reads' = IF got.loaded THEN g_reads + 1 ELSE g_reads
          /\ g_returned' = [raised |-> got.raised,
                            db |-> IF got.raised THEN None ELSE Some(got.db)]
          /\ g_first' = IF g_first = None /\ ~got.raised THEN Some(got.db) ELSE g_first
    /\ g_calls' = g_calls + 1
    /\ UNCHANGED s_source
    /\ UNCHANGED not_singleton

SingletonNext == GetSingleton

SpecSingleton == SingletonInit /\ [][SingletonNext]_vars

\* C11: whatever the calls a process makes, country_db.json is read at most
\* once; every call after the first returns the catalog of the first; and a
\* failed load is raised, leaving no catalog.
C11_ReadAtMostOnce ==
    /\ g_reads <= 1
    /\ (g_calls > 0 /\ ~g_returned.raised) => g_returned.db = g_first
    /\ (g_calls > 0 /\ g_returned.raised) => s_instance = None

\* what does hold: a load that succeeds happens once and every later call
\* returns that same catalog; a load that fails is raised and leaves no
\* catalog, so that every later call reads the source again and raises again
LoadedOnceWhenLoadable ==
    /\ (g_calls > 0 /\ ~g_returned.raised) =>
          /\ g_reads = 1
          /\ g_returned.db = g_first
          /\ s_instance = g_first
    /\ (g_calls > 0 /\ g_returned.raised) =>
          /\ g_reads = g_calls
          /\ s_instance = None
          /\ g_first = None

\* a record without the expected shape: not an object, a field missing, or a
\* field that is neither a string nor null
Malformed(record) ==
    \/ ~record.isdict
    \/ \E field \in CountryFields :
          \/ field \notin DOMAIN record.fields
          \/ record.fields[field].type \notin {"str", "null"}

\* C12: when some record of the source is malformed, the load fails: the
\* call of get_singleton that reads the source raises.
C12_MalformedFailsLoad ==
    (/\ g_calls > 0
     /\ s_source # None
     /\ \E i \in DOMAIN Val(s_source) : Malformed(Val(s_source)[i])) =>
        g_returned.raised

\* the places <<i, d>> of a dirname where a parenthesis opens at i, four
\* digits start at d after it, and a parenthesis closes somewhere behind them
ParenthesizedYears(s) ==
    { g \in (1..Len(s)) \X (1..Len(s)) :
        /\ s[g[1]] = "("
        /\ g[1] < g[2]
        /\ DigitsAt(s, g[2])
        /\ \E e \in (g[2] + 4)..Len(s) : s[e] = ")" }

\* the title derived from a raw title: article reorder, then sanitization
\* with substitution disabled
DerivedTitle(raw) == cleanse_string(Some(reorder_article(raw)), FALSE, DefaultWildcard)

MaxSwept == 2

SweepInit ==
    /\ f_pc = "idle"
    /\ f_run = 0
    /\ f_dry = FALSE
    /\ \E n \in 1..MaxSwept :
          /\ f_fs \in [1..n -> UNION { Folders(DirName(i)) : i \in 1..n }]
          /\ \A i \in 1..n : f_fs[i].name = DirName(i)
          /\ f_written = [i \in 1..n |-> None]
    /\ f_list = <<>>
    /\ f_i = 1
    /\ f_visit = NoVisit
    /\ s_source \in FolderCatalogSources
    /\ s_instance = None
    /\ TextIdle
    /\ CatalogIdle
    /\ MovieIdle
    /\ CallsIdle

\* main() is run once
SweepStart ==
    /\ f_run = 0
    /\ StartRun

SweepNext ==
    \/ SweepStart
    \/ VisitEmpty
    \/ VisitOverride
    \/ VisitFirstTime
    \/ EndRun

SpecSweep == SweepInit /\ [][SweepNext]_vars

\* what a step of the loop does to the folders and to the position in the list
SweepStep ==
    f_pc = "looping" =>
        IF f_i <= Len(f_list)
        THEN /\ f_pc' = "looping"
             /\ f_list' = f_list
             /\ f_i' = f_i + 1
             /\ f_visit'.id = f_list[f_i].id
             /\ (f_visit'.outcome # "movie" \/ ~f_visit'.renamed) =>
                    f_fs'[f_list[f_i].id].name = f_fs[f_list[f_i].id].name
             /\ \A j \in DOMAIN f_fs : j # f_list[f_i].id => f_fs'[j] = f_fs[j]
        ELSE f_pc' = "idle"

\* C16: rename_movie_folders attempts every folder of the list once and in
\* list order: each step of the loop handles the next entry of the list,
\* whatever became of the entries before; a folder whose processing raised
\* or yielded no movie keeps its name and the other folders are untouched;
\* the run ends only past the last entry.
C16_EveryFolderAttemptedInOrder ==
    /\ [](f_pc = "looping" => DOMAIN f_list = DOMAIN f_fs /\ f_i \in 1..(Len(f_list) + 1))
    /\ []((f_pc = "idle" /\ f_run > 0) => f_i = Len(f_list) + 1 /\ Len(f_list) = Len(f_fs))
    /\ [][SweepStep]_vars

\* the first folder, with a corrupt config.json, raised and kept its name,
\* and the second was renamed after it
C16_Witness ==
    /\ f_pc = "looping"
    /\ Len(f_list) = 2
    /\ f_i = 3
    /\ f_fs[1].config # None
    /\ Val(f_fs[1].config).corrupt
    /\ f_fs[1].name = DirName(1)
    /\ f_visit.id = 2
    /\ f_visit.outcome = "movie"
    /\ f_visit.renamed
    /\ f_fs[2].name # DirName(2)

DryRunNeverRenames ==
    [][(f_pc = "looping" /\ f_dry) =>
          \A i \in DOMAIN f_fs : f_fs'[i].name = f_fs[i].name]_vars

\* ---------------------------------------------------------------------
\* normalize_country applied to country texts

\* the longest country text, in words
MaxTokens == 4

CountryWords ==
    { <<"U", "n", "i", "t", "e", "d">>, <<"S", "t", "a", "t", "e", "s">>,
      <<"o", "f">>, <<"A", "m", "e", "r", "i", "c", "a">>, <<"U", "K">>,
      <<"T", "h", "e">>, <<"a", "n", "d">> }

\* words separated by one blank or by a tab and a blank, with or without
\* blanks around
CountryTexts ==
    { pad \o join(sep, words) \o pad :
        words \in SeqsUpTo(CountryWords, MaxTokens),
        sep \in { <<" ">>, <<"\t", " ">> },
        pad \in { <<>>, <<" ">> } }

NormalizeInit ==
    /\ t_pc = "start"
    /\ t_in \in CountryTexts
    /\ t_replace = TRUE
    /\ t_wildcard = DefaultWildcard
    /\ t_clean = <<>>
    /\ t_parsed = [title |-> <<>>, year |-> None]
    /\ t_title = <<>>
    /\ CatalogIdle
    /\ SingletonIdle
    /\ MovieIdle
    /\ FoldersIdle
    /\ CallsIdle

\* CountryEntry.normalize_country(t_in)
NormalizeCountry ==
    /\ t_pc = "start"
    /\ t_clean' = normalize_country(t_in)
    /\ t_pc' = "normalized"
    /\ UNCHANGED <<t_in, t_replace, t_wildcard, t_parsed, t_title>>
    /\ UNCHANGED not_text

NormalizeNext == NormalizeCountry

SpecNormalize == NormalizeInit /\ [][NormalizeNext]_vars

RECURSIVE Concatenated(_)
\* the strings of a sequence one after the other
Concatenated(words) ==
    IF words = <<>> THEN <<>> ELSE Head(words) \o Concatenated(Tail(words))

StopWords == { <<"a", "n", "d">>, <<"o", "f">>, <<"t", "h", "e">> }

\* the lowercased tokens, without the stop words when there are several
KeptTokens(raw) ==
    LET lowered == [i \in DOMAIN split(raw) |-> lower(split(raw)[i])]
    IN  IF Len(lowered) > 1
        THEN SelectSeq(lowered, LAMBDA w : w \notin StopWords)
        ELSE lowered

\* C14: normalize_country(raw) is the concatenation without separator of the
\* lowercased whitespace-separated tokens of raw, where 'and', 'of', 'the'
\* are removed exactly when raw has more than one token.
C14_NormalizeCountry ==
    t_pc = "normalized" =>
        /\ t_clean = Concatenated(KeptTokens(t_in))
        /\ t_in = <<"U", "K">> => t_clean = <<"u", "k">>
        /\ t_in = <<"T", "h", "e">> => t_clean = <<"t", "h", "e">>

\* 'United States of America' gives 'unitedstatesamerica'
C14_Witness ==
    /\ t_pc = "normalized"
    /\ t_in = <<"U", "n", "i", "t", "e", "d", " ", "S", "t", "a", "t", "e", "s", " ",
               "o", "f", " ", "A", "m", "e", "r", "i", "c", "a">>
    /\ t_clean = <<"u", "n", "i", "t", "e", "d", "s", "t", "a", "t", "e", "s",
                  "a", "m", "e", "r", "i", "c", "a">>

====
